---- MODULE Spec2Model ----
(***************************************************************************)
(* Model of the Repository base class of repo-abs-knex                     *)
(* (src/src/repository.ts): the handle routing (db), the query factory     *)
(* (qb), the max sub-query (qbMax) and the cursor pagination helper        *)
(* (qbCPaginate), together with the execution of the built query against   *)
(* a table, as the caller of the doc-comment example does with await.      *)
(*                                                                         *)
(* A JavaScript object with optional properties is a function whose        *)
(* DOMAIN holds the properties that are set; a missing property reads as   *)
(* undefined.  A JavaScript string of decimal digits is the sequence of    *)
(* its digits, so that "1" is <<1>> and "" is <<>>.                        *)
(***************************************************************************)
EXTENDS Integers, Sequences, FiniteSets, TLC

VARIABLES
  dbmain,      \* Repository.dbmain
  dbreadonly,  \* Repository.dbreadonly
  table,       \* the rows of the database table, in storage order
  pc,          \* "idle" | "fetched" | "built": position of the caller
  call,        \* the method of the latest call, "none" when idle
  opt,         \* the option of the latest call
  opt0,        \* the option of the first call of the current traversal
  query,       \* the query description returned by the latest call
  result,      \* [error, rows]: what executing query gave
  pages,       \* the logical pages taken so far in the current traversal
  ctor,        \* the params the Repository was constructed with
  trx_state,   \* the state of every transaction the callers hold
  handle,      \* the handle returned by the latest call of db
  args,        \* the arguments of the latest call of a preset constructor
  procs,       \* the calls in progress of the concurrent callers
  sent,        \* the number of statements the current caller sent to the database
  present,     \* the rows that were in the table at every fetch of the traversal
  churn,       \* the number of inserts and deletes other operations have made
  store,       \* the number of rows of every table knexResetTables can delete from
  reset,       \* the call of knexResetTablesAdvance in progress
  codec        \* the latest call of toBinaryUUID or fromBinaryUUID

vars == <<dbmain, dbreadonly, table, pc, call, opt, opt0, query, result, pages,
          ctor, trx_state, handle, args, procs, sent, present, churn, store, reset, codec>>

-----------------------------------------------------------------------------
(* Bounds of the model *)

MaxRows == 2
MaxSeq == 7
MaxPageSize == 3
MaxFetch == 9

Ids == 0..3
Names == {1, 2}

Trxs == {"trx1", "trx2"}
TrxStates == {"open", "committed", "rolled back"}
Callers == {1, 2}

TableName == "users"
IdColumn == "id"
NameColumn == "name"

-----------------------------------------------------------------------------
(* JavaScript values *)

Empty == [f \in {} |-> 0]

Has(o, f) == f \in DOMAIN o

IsTrue(o, f) == Has(o, f) /\ o[f] = TRUE

Null == [kind |-> "null"]

Str(chars) == [kind |-> "str", chars |-> chars]

Min(a, b) == IF a < b THEN a ELSE b

(* The id of a row written as a string, as the caller passes it in start_id *)
RECURSIVE NumToStr(_)
NumToStr(n) == IF n < 10 THEN <<n>> ELSE NumToStr(n \div 10) \o <<n % 10>>

(* The number the database reads in a string bound against the numeric id   *)
(* column; the empty string reads as 0.                                     *)
RECURSIVE SqlNum(_)
SqlNum(chars) ==
  IF chars = <<>> THEN 0
  ELSE SqlNum(SubSeq(chars, 1, Len(chars) - 1)) * 10 + chars[Len(chars)]

-----------------------------------------------------------------------------
(* Repository.  A definition named x_y is x with one slip, kept to show     *)
(* that the property it belongs to tells the two apart.                     *)

prependTableName_bare(tbl, column) == column

prependTableName(tbl, column) == tbl \o "." \o column

db_trx_on_main(o) ==
  IF IsTrue(o, "readonly") /\ ~Has(o, "trx") THEN dbreadonly ELSE dbmain

db(o) == IF IsTrue(o, "readonly") THEN dbreadonly ELSE dbmain

ColumnRef(tbl, o, column) ==
  IF IsTrue(o, "disablePrependTableName") THEN column ELSE prependTableName(tbl, column)

qb_lock_without_trx(tbl, o) ==
  LET q0 == [handle |-> db(o), table |-> tbl, transacting |-> <<>>,
             forUpdate |-> IsTrue(o, "for_update"), where |-> <<>>, orderBy |-> <<>>,
             limit |-> <<>>, max |-> <<>>, first |-> FALSE]
      q1 == IF Has(o, "trx") THEN [q0 EXCEPT !.transacting = <<o.trx>>] ELSE q0
  IN IF Has(o, "order") /\ Has(o, "order_by")
     THEN [q1 EXCEPT !.orderBy = Append(@, [column |-> ColumnRef(tbl, o, o.order_by),
                                             direction |-> o.order])]
     ELSE q1

qb(tbl, o) ==
  LET q0 == [handle |-> db(o), table |-> tbl, transacting |-> <<>>,
             forUpdate |-> FALSE, where |-> <<>>, orderBy |-> <<>>,
             limit |-> <<>>, max |-> <<>>, first |-> FALSE]
      q1 == IF Has(o, "trx")
            THEN [q0 EXCEPT !.transacting = <<o.trx>>,
                            !.forUpdate = IsTrue(o, "for_update")]
            ELSE q0
  IN IF Has(o, "order") /\ Has(o, "order_by")
     THEN [q1 EXCEPT !.orderBy = Append(@, [column |-> ColumnRef(tbl, o, o.order_by),
                                             direction |-> o.order])]
     ELSE q1

(* What qb does to the transactions: transacting(opt.trx) attaches the      *)
(* handle to the query and nothing else.                                    *)
TrxStateAfterQb_commit(o, st) ==
  IF Has(o, "trx") THEN [st EXCEPT ![o.trx] = "committed"] ELSE st

TrxStateAfterQb(o, st) == st

qbMax_plain(tbl, column, o) ==
  [qb(tbl, Empty) EXCEPT !.max = <<[column |-> ColumnRef(tbl, o, column), as |-> "max"]>>,
                         !.first = TRUE]

qbMax_noaggregate(tbl, column, o) == [qb(tbl, o) EXCEPT !.first = TRUE]

qbMax(tbl, column, o) ==
  [qb(tbl, o) EXCEPT !.max = <<[column |-> ColumnRef(tbl, o, column), as |-> "max"]>>,
                     !.first = TRUE]

page_size_unchecked(o) == IF Has(o, "page_size") THEN o.page_size ELSE 0

page_size(o) == IF Has(o, "page_size") /\ o.page_size > 0 THEN o.page_size ELSE 0

order_ascending(o) == "asc"

order(o) == IF Has(o, "order") /\ o.order = "desc" THEN "desc" ELSE "asc"

comparator_strict(o) == IF order(o) = "asc" THEN ">" ELSE "<"

comparator(o) == IF order(o) = "asc" THEN ">=" ELSE "<="

cursor_zero(tbl, id_column, o) ==
  IF Has(o, "start_id") /\ o.start_id.kind # "null" THEN o.start_id
  ELSE IF order(o) = "asc" THEN Str(<<0>>)
  ELSE [kind |-> "query", q |-> qbMax(tbl, id_column, o)]

cursor_one(tbl, id_column, o) ==
  IF Has(o, "start_id") /\ o.start_id.kind # "null" THEN o.start_id ELSE Str(<<1>>)

(* cursor || default in place of cursor ?? default *)
cursor_falsy(tbl, id_column, o) ==
  IF Has(o, "start_id") /\ o.start_id.kind # "null" /\ o.start_id # Str(<<>>) THEN o.start_id
  ELSE IF order(o) = "asc" THEN Str(<<1>>)
  ELSE [kind |-> "query", q |-> qbMax(tbl, id_column, o)]

cursor_eager(tbl, id_column, o) ==
  IF Has(o, "start_id") /\ o.start_id.kind # "null" THEN o.start_id
  ELSE IF order(o) = "asc" THEN Str(<<1>>)
  ELSE LET ids == {table[i].id : i \in DOMAIN table}
       IN IF ids = {} THEN Str(<<0>>)
          ELSE Str(NumToStr(CHOOSE v \in ids : \A w \in ids : w <= v))

cursor(tbl, id_column, o) ==
  IF Has(o, "start_id") /\ o.start_id.kind # "null" THEN o.start_id
  ELSE IF order(o) = "asc" THEN Str(<<1>>)
  ELSE [kind |-> "query", q |-> qbMax(tbl, id_column, o)]

limit_always_extra(o) == IF page_size(o) # 0 THEN <<page_size(o) + 1>> ELSE <<>>

limit_no_extra(o) == IF page_size(o) # 0 THEN <<page_size(o)>> ELSE <<>>

limit(o) ==
  IF page_size(o) # 0
  THEN <<page_size(o) + (IF IsTrue(o, "disablePageSizePlusOne") THEN 0 ELSE 1)>>
  ELSE <<>>

qbCPaginate_unordered(tbl, id_column, o) ==
  [qb(tbl, o) EXCEPT !.where = Append(@, [column |-> ColumnRef(tbl, o, id_column),
                                          op |-> comparator(o),
                                          value |-> cursor(tbl, id_column, o)]),
                     !.limit = limit(o)]

qbCPaginate(tbl, id_column, o) ==
  LET q == qb(tbl, o)
      col == ColumnRef(tbl, o, id_column)
  IN [q EXCEPT !.where = Append(@, [column |-> col, op |-> comparator(o),
                                    value |-> cursor(tbl, id_column, o)]),
               !.orderBy = Append(@, [column |-> col, direction |-> order(o)]),
               !.limit = limit(o)]

-----------------------------------------------------------------------------
(* Execution of a query description against the rows of the table *)

ColumnValue(row, tbl, column) ==
  IF column \in {IdColumn, prependTableName(tbl, IdColumn)} THEN row.id ELSE row.name

Compare(v, op, bound) ==
  /\ ~bound.null
  /\ CASE op = ">=" -> v >= bound.n
       [] op = ">" -> v > bound.n
       [] op = "<=" -> v <= bound.n
       [] OTHER -> v < bound.n

RECURSIVE Before(_, _, _, _)
Before(a, b, tbl, keys) ==
  IF keys = <<>> THEN FALSE
  ELSE LET va == ColumnValue(a, tbl, keys[1].column)
           vb == ColumnValue(b, tbl, keys[1].column)
       IN IF va = vb THEN Before(a, b, tbl, Tail(keys))
          ELSE IF keys[1].direction = "desc" THEN va > vb ELSE va < vb

(* ORDER BY: rows that compare equal on every key keep their storage order *)
RECURSIVE SortRows(_, _, _)
SortRows(s, tbl, keys) ==
  IF s = <<>> THEN <<>>
  ELSE LET sorted == SortRows(SubSeq(s, 1, Len(s) - 1), tbl, keys)
           x == s[Len(s)]
           later == {i \in 1..Len(sorted) : Before(x, sorted[i], tbl, keys)}
           p == IF later = {} THEN Len(sorted) + 1
                ELSE CHOOSE i \in later : \A j \in later : i <= j
       IN SubSeq(sorted, 1, p - 1) \o <<x>> \o SubSeq(sorted, p, Len(sorted))

MaxValue(rows, tbl, column) ==
  IF rows = <<>> THEN [null |-> TRUE, n |-> 0]
  ELSE LET vs == {ColumnValue(rows[i], tbl, column) : i \in 1..Len(rows)}
       IN [null |-> FALSE, n |-> CHOOSE v \in vs : \A w \in vs : w <= v]

RECURSIVE Execute(_, _)
Execute(q, rows) ==
  LET Bound(w) ==
        IF w.value.kind = "str"
        THEN [error |-> FALSE, null |-> FALSE, n |-> SqlNum(w.value.chars)]
        ELSE LET sub == Execute(w.value.q, rows)
             IN IF sub.error \/ w.value.q.max = <<>> \/ Len(sub.rows) > 1
                THEN [error |-> TRUE, null |-> TRUE, n |-> 0]
                ELSE IF sub.rows = <<>>
                THEN [error |-> FALSE, null |-> TRUE, n |-> 0]
                ELSE [error |-> FALSE, null |-> sub.rows[1].null, n |-> sub.rows[1].n]
      bounds == [i \in 1..Len(q.where) |-> Bound(q.where[i])]
      Keep(r) == \A i \in 1..Len(q.where) :
                   Compare(ColumnValue(r, q.table, q.where[i].column), q.where[i].op, bounds[i])
      filtered == SelectSeq(rows, Keep)
      sorted == SortRows(filtered, q.table, q.orderBy)
      limited == IF q.limit = <<>> THEN sorted
                 ELSE SubSeq(sorted, 1, Min(q.limit[1], Len(sorted)))
      out == IF q.max # <<>> THEN <<MaxValue(filtered, q.table, q.max[1].column)>>
             ELSE limited
  IN IF \E i \in 1..Len(q.where) : bounds[i].error
     THEN [error |-> TRUE, rows |-> <<>>]
     ELSE [error |-> FALSE,
           rows |-> IF q.first THEN SubSeq(out, 1, Min(1, Len(out))) ELSE out]

-----------------------------------------------------------------------------
(* knexResetTablesAdvance and knexResetTables (unnamed/part_000).  An       *)
(* object whose key order counts is the sequence of its [key, value]        *)
(* entries, in insertion order.                                             *)

Keys(obj) == [i \in DOMAIN obj |-> obj[i].key]

KeySet(obj) == {obj[i].key : i \in DOMAIN obj}

Get(obj, k) == obj[CHOOSE i \in DOMAIN obj : obj[i].key = k].value

(* { ...a, ...b }: the keys of a keep their place and take the value b      *)
(* gives them, the keys only b has follow in the order of b.                *)
Spread(a, b) ==
  LET over == [i \in DOMAIN a |->
                 IF a[i].key \in KeySet(b)
                 THEN [key |-> a[i].key, value |-> Get(b, a[i].key)]
                 ELSE a[i]]
      OnlyInB(e) == e.key \notin KeySet(a)
  IN over \o SelectSeq(b, OnlyInB)

OptionTables(option) == IF Has(option, "tables") THEN option.tables ELSE <<>>

chosen_ignoring_strategy(tables, option) ==
  LET merged == Spread(tables, OptionTables(option))
      Keep(e) == e.value = TRUE
  IN Keys(SelectSeq(merged, Keep))

chosen(tables, option) ==
  LET merged == Spread(tables, OptionTables(option))
      Keep(e) ==
        IF ~Has(option, "strategy") \/ option.strategy = "only" THEN e.value = TRUE
        ELSE IF option.strategy = "except" THEN e.value = FALSE
        ELSE FALSE
  IN Keys(SelectSeq(merged, Keep))

SeqSet(s) == {s[i] : i \in DOMAIN s}

(* The tables of the doc-comment example *)
ResetNames == <<"users", "roles", "user_role">>

NoStore == [t \in SeqSet(ResetNames) |-> 0]

NoReset ==
  [pc |-> "idle", tables |-> <<>>, option |-> Empty, chosen |-> <<>>, next |-> 1,
   result |-> Empty, before |-> Empty]

-----------------------------------------------------------------------------
(* toBinaryUUID and fromBinaryUUID (src/utils.ts).  A string is the         *)
(* sequence of its characters, a Buffer the sequence of its bytes; the byte *)
(* at the offset j of the code is the element j + 1 of the sequence.        *)

HexDigits ==
  <<"0", "1", "2", "3", "4", "5", "6", "7", "8", "9", "a", "b", "c", "d", "e", "f">>

UpperHexDigits ==
  <<"0", "1", "2", "3", "4", "5", "6", "7", "8", "9", "A", "B", "C", "D", "E", "F">>

IsHex(c) == \E v \in DOMAIN HexDigits : c \in {HexDigits[v], UpperHexDigits[v]}

HexVal(c) == (CHOOSE v \in DOMAIN HexDigits : c \in {HexDigits[v], UpperHexDigits[v]}) - 1

(* buf.subarray(start, end) *)
subarray(buf, start, end) ==
  LET e == Min(end, Len(buf))
  IN IF start >= e THEN <<>> ELSE SubSeq(buf, start + 1, e)

(* buf.toString('hex', start, end): two lowercase digits for every byte *)
toStringHex(buf, start, end) ==
  LET part == subarray(buf, start, end)
  IN [k \in 1..(2 * Len(part)) |->
        LET byte == part[(k + 1) \div 2]
        IN HexDigits[(IF k % 2 = 1 THEN byte \div 16 ELSE byte % 16) + 1]]

(* Buffer.from(s, 'hex'): one byte for every pair of hexadecimal digits, up *)
(* to the first pair that is not one.                                       *)
RECURSIVE bufferFromHex(_)
bufferFromHex(s) ==
  IF Len(s) < 2 \/ ~IsHex(s[1]) \/ ~IsHex(s[2]) THEN <<>>
  ELSE <<HexVal(s[1]) * 16 + HexVal(s[2])>> \o bufferFromHex(SubSeq(s, 3, Len(s)))

(* uuid.replace(/-/g, '') *)
removeDashes(s) == LET NotDash(c) == c # "-" IN SelectSeq(s, NotDash)

RECURSIVE join(_, _)
join(parts, sep) ==
  IF parts = <<>> THEN <<>>
  ELSE IF Len(parts) = 1 THEN parts[1]
  ELSE parts[1] \o <<sep>> \o join(Tail(parts), sep)

fromBinaryUUID(buf) ==
  join(<<toStringHex(buf, 4, 8),
         toStringHex(buf, 2, 4),
         toStringHex(buf, 0, 2),
         toStringHex(buf, 8, 10),
         toStringHex(buf, 10, 16)>>, "-")

toBinaryUUID_unswapped(uuid) ==
  LET buf == bufferFromHex(removeDashes(uuid))
  IN subarray(buf, 0, 4) \o subarray(buf, 4, 6) \o subarray(buf, 6, 8) \o subarray(buf, 8, 16)

toBinaryUUID(uuid) ==
  LET buf == bufferFromHex(removeDashes(uuid))
  IN subarray(buf, 6, 8) \o subarray(buf, 4, 6) \o subarray(buf, 0, 4) \o subarray(buf, 8, 16)

NoCodec == [op |-> "none", input |-> <<>>, output |-> <<>>, back |-> <<>>]

-----------------------------------------------------------------------------
(* Inputs *)

Opt(S, f, V) == S \cup {(f :> v) @@ o : o \in S, v \in V}

Row(i, c) == [rid |-> i, id |-> c[1], name |-> c[2]]

SmallTables ==
  UNION {{[i \in 1..k |-> Row(i, f[i])] : f \in [1..k -> Ids \X Names]} : k \in 0..MaxRows}

SeqTable(n) ==
  [i \in 1..n |->
     LET id == IF i <= n \div 2 THEN 2 * i ELSE 2 * (i - n \div 2) - 1
     IN Row(i, <<id, 1 + (id % 2)>>)]

SeqTables == {SeqTable(n) : n \in (3..MaxSeq) \cup {25}}

Tables == SmallTables \cup SeqTables

PageSizes == {-1, 0, 10} \cup (1..MaxPageSize)

StartIds == {Null, Str(<<>>)} \cup {Str(NumToStr(i)) : i \in Ids \cup {5}}

PageOptions ==
  Opt(Opt(Opt(Opt(Opt({Empty},
    "order", {"asc", "desc"}),
    "page_size", PageSizes),
    "start_id", StartIds),
    "disablePageSizePlusOne", BOOLEAN),
    "order_by", {NameColumn})

-----------------------------------------------------------------------------
(* The caller of the doc-comment example: fetch a page, follow the peek row *)

LogicalPage(o, res) ==
  IF page_size(o) = 0 THEN res.rows
  ELSE SubSeq(res.rows, 1, Min(page_size(o), Len(res.rows)))

HasNext_atleast(o, res) == page_size(o) > 0 /\ Len(res.rows) >= page_size(o)

HasNext(o, res) == page_size(o) > 0 /\ Len(res.rows) > page_size(o)

Rids(rows) == {rows[i].rid : i \in DOMAIN rows}

(* The rows that have been in the table at every statement of the traversal, *)
(* the one about to run included                                             *)
StillPresent == IF pages = <<>> THEN Rids(table) ELSE present \cap Rids(table)

Fetch(o) ==
  /\ opt' = o
  /\ query' = qbCPaginate(TableName, IdColumn, o)
  /\ result' = Execute(query', table)
  /\ pc' = "fetched"
  /\ call' = "qbCPaginate"
  /\ trx_state' = TrxStateAfterQb(o, trx_state)
  /\ sent' = sent + 1
  /\ present' = StillPresent
  /\ UNCHANGED <<dbmain, dbreadonly, table, ctor, handle, args, procs, churn, store, reset,
                 codec>>

FirstPage ==
  /\ pc = "idle"
  /\ \E o \in PageOptions :
       /\ Fetch(o)
       /\ opt0' = o
       /\ pages' = <<LogicalPage(o, result')>>

NextPage ==
  /\ pc = "fetched"
  /\ HasNext(opt, result)
  /\ Len(pages) < MaxFetch
  /\ LET peek == result.rows[Len(result.rows)]
         o == ("start_id" :> Str(NumToStr(peek.id))) @@ opt
     IN /\ Fetch(o)
        /\ pages' = Append(pages, LogicalPage(o, result'))
  /\ UNCHANGED opt0

Return ==
  /\ pc # "idle"
  /\ pc' = "idle"
  /\ call' = "none"
  /\ opt' = Empty
  /\ opt0' = Empty
  /\ query' = <<>>
  /\ result' = [error |-> FALSE, rows |-> <<>>]
  /\ pages' = <<>>
  /\ handle' = "none"
  /\ args' = Empty
  /\ sent' = 0
  /\ present' = {}
  /\ UNCHANGED <<dbmain, dbreadonly, table, ctor, trx_state, procs, churn, store, reset,
                 codec>>

Constructor_nodefault(params) ==
  [dbmain |-> params.dbmain,
   dbreadonly |-> IF Has(params, "dbreadonly") THEN params.dbreadonly ELSE "undefined"]

Constructor(params) ==
  [dbmain |-> params.dbmain,
   dbreadonly |-> IF Has(params, "dbreadonly") THEN params.dbreadonly ELSE params.dbmain]

NoBuilder ==
  [handle |-> "none", table |-> TableName, transacting |-> <<>>, forUpdate |-> FALSE,
   where |-> <<>>, orderBy |-> <<>>, limit |-> <<>>, max |-> <<>>, first |-> FALSE]

NoCall == [pc |-> "idle", method |-> "none", opt |-> Empty, q |-> NoBuilder, ret |-> NoBuilder]

Idle ==
  /\ pc = "idle"
  /\ call = "none"
  /\ opt = Empty
  /\ opt0 = Empty
  /\ query = <<>>
  /\ result = [error |-> FALSE, rows |-> <<>>]
  /\ pages = <<>>
  /\ handle = "none"
  /\ args = Empty
  /\ procs = [p \in Callers |-> NoCall]
  /\ sent = 0
  /\ present = {}
  /\ churn = 0
  /\ reset = NoReset
  /\ codec = NoCodec

Constructed(p) ==
  /\ ctor = p
  /\ dbmain = Constructor(p).dbmain
  /\ dbreadonly = Constructor(p).dbreadonly

Init ==
  /\ Constructed([dbmain |-> "dbmain", dbreadonly |-> "dbreadonly"])
  /\ table \in Tables
  /\ trx_state = [t \in Trxs |-> "open"]
  /\ store = NoStore
  /\ Idle

Next == FirstPage \/ NextPage \/ Return

Spec == Init /\ [][Next]_vars

-----------------------------------------------------------------------------
(* Building queries without executing them: routing and shaping *)

RouteOptions ==
  Opt(Opt(Opt(Opt(Opt(Opt({Empty},
    "readonly", BOOLEAN),
    "trx", Trxs),
    "for_update", BOOLEAN),
    "order", {"asc", "desc"}),
    "order_by", {IdColumn, NameColumn}),
    "disablePrependTableName", BOOLEAN)

Build(method, o, q) ==
  /\ pc = "idle"
  /\ pc' = "built"
  /\ call' = method
  /\ opt' = o
  /\ query' = q
  /\ trx_state' = TrxStateAfterQb(o, trx_state)
  /\ UNCHANGED <<dbmain, dbreadonly, table, opt0, result, pages, ctor, handle, args, procs,
                 sent, present, churn, store, reset, codec>>

BuildQb == \E o \in RouteOptions : Build("qb", o, qb(TableName, o))

BuildQbMax == \E o \in RouteOptions : Build("qbMax", o, qbMax(TableName, IdColumn, o))

BuildCPaginate ==
  \E o \in RouteOptions : Build("qbCPaginate", o, qbCPaginate(TableName, IdColumn, o))

CallDb ==
  /\ pc = "idle"
  /\ \E o \in RouteOptions :
       /\ pc' = "resolved"
       /\ call' = "db"
       /\ opt' = o
       /\ handle' = db(o)
  /\ UNCHANGED <<dbmain, dbreadonly, table, opt0, query, result, pages, ctor, trx_state,
                 args, procs, sent, present, churn, store, reset, codec>>

(* The preset constructors of options/QueryOption.ts.  a holds the          *)
(* arguments that are given; { trx } with trx undefined reads as no trx.    *)
WithTrx(a, o) == IF Has(a, "trx") THEN ("trx" :> a.trx) @@ o ELSE o

createSelectOption_notrx(a) == [readonly |-> ~IsTrue(a, "after")]

createSelectOption(a) == WithTrx(a, [readonly |-> ~IsTrue(a, "after")])

createSelectForUpdateOption(a) == WithTrx(a, [readonly |-> FALSE, for_update |-> TRUE])

createInsertOption_readonly(a) == WithTrx(a, [readonly |-> TRUE])

createInsertOption(a) == WithTrx(a, [readonly |-> FALSE])

createUpdateOption(a) == WithTrx(a, [readonly |-> FALSE])

createDeleteOption(a) == WithTrx(a, [readonly |-> FALSE])

(* The write presets as index.ts has them: { trx } and nothing else *)
indexCreateInsertOption(a) == WithTrx(a, Empty)

indexCreateUpdateOption(a) == WithTrx(a, Empty)

indexCreateDeleteOption(a) == WithTrx(a, Empty)

TrxArgs == Opt({Empty}, "trx", Trxs)

Preset(name, a, o) ==
  /\ pc = "idle"
  /\ pc' = "preset"
  /\ call' = name
  /\ args' = a
  /\ opt' = o
  /\ UNCHANGED <<dbmain, dbreadonly, table, opt0, query, result, pages, ctor, trx_state,
                 handle, procs, sent, present, churn, store, reset, codec>>

CallCreateSelectOption ==
  \E a \in Opt(TrxArgs, "after", BOOLEAN) :
    Preset("createSelectOption", a, createSelectOption(a))

CallCreateSelectForUpdateOption ==
  \E a \in TrxArgs \ {Empty} :
    Preset("createSelectForUpdateOption", a, createSelectForUpdateOption(a))

CallCreateInsertOption ==
  \E a \in TrxArgs :
    \E o \in {createInsertOption(a), indexCreateInsertOption(a)} : Preset("createInsertOption", a, o)

CallCreateUpdateOption ==
  \E a \in TrxArgs :
    \E o \in {createUpdateOption(a), indexCreateUpdateOption(a)} : Preset("createUpdateOption", a, o)

CallCreateDeleteOption ==
  \E a \in TrxArgs :
    \E o \in {createDeleteOption(a), indexCreateDeleteOption(a)} : Preset("createDeleteOption", a, o)

InitRoute ==
  /\ \E p \in {[dbmain |-> "dbmain"], [dbmain |-> "dbmain", dbreadonly |-> "dbreadonly"]} :
       Constructed(p)
  /\ table = SeqTable(3)
  /\ trx_state \in [Trxs -> TrxStates]
  /\ store = NoStore
  /\ Idle

NextRoute ==
  \/ CallDb
  \/ BuildQb
  \/ BuildQbMax
  \/ BuildCPaginate
  \/ CallCreateSelectOption
  \/ CallCreateSelectForUpdateOption
  \/ CallCreateInsertOption
  \/ CallCreateUpdateOption
  \/ CallCreateDeleteOption
  \/ Return

SpecRoute == InitRoute /\ [][NextRoute]_vars

-----------------------------------------------------------------------------
(* Concurrent callers on one Repository.  A call is taken apart into the    *)
(* statements of qb (new builder, transaction and lock, ordering) and the   *)
(* shaping qbMax and qbCPaginate add, and the statements of the callers     *)
(* interleave.  The builder of a call is the local const qb of that call.   *)

Slot_shared(p) == 1

Slot(p) == p

newBuilder(tbl, o) == [NoBuilder EXCEPT !.handle = db(o), !.table = tbl]

attachTrx(q, o) ==
  IF Has(o, "trx")
  THEN [q EXCEPT !.transacting = <<o.trx>>, !.forUpdate = IsTrue(o, "for_update")]
  ELSE q

applyOrder(q, tbl, o) ==
  IF Has(o, "order") /\ Has(o, "order_by")
  THEN [q EXCEPT !.orderBy = Append(@, [column |-> ColumnRef(tbl, o, o.order_by),
                                         direction |-> o.order])]
  ELSE q

shape(method, q, tbl, id_column, o) ==
  CASE method = "qbMax" ->
         [q EXCEPT !.max = <<[column |-> ColumnRef(tbl, o, id_column), as |-> "max"]>>,
                   !.first = TRUE]
    [] method = "qbCPaginate" ->
         [q EXCEPT !.where = Append(@, [column |-> ColumnRef(tbl, o, id_column),
                                        op |-> comparator(o),
                                        value |-> cursor(tbl, id_column, o)]),
                   !.orderBy = Append(@, [column |-> ColumnRef(tbl, o, id_column),
                                          direction |-> order(o)]),
                   !.limit = limit(o)]
    [] OTHER -> q

ConcOptions ==
  Opt(Opt(Opt({Empty}, "readonly", {TRUE}), "trx", {"trx1"}), "for_update", {TRUE})
    \cup {[order |-> "desc", order_by |-> NameColumn],
          [order |-> "desc", order_by |-> NameColumn, readonly |-> TRUE, trx |-> "trx2"]}

Others == <<dbmain, dbreadonly, table, pc, call, opt, opt0, query, result, pages,
            ctor, trx_state, handle, args, sent, present, churn, store, reset, codec>>

Begin(p) ==
  /\ procs[p].pc = "idle"
  /\ \E method \in {"db", "qb", "qbMax", "qbCPaginate"}, o \in ConcOptions :
       IF method = "db"
       THEN procs' = [procs EXCEPT ![p] = [pc |-> "done", method |-> method, opt |-> o,
                                           q |-> @.q,
                                           ret |-> [NoBuilder EXCEPT !.handle = db(o)]]]
       ELSE procs' = [procs EXCEPT ![p] = [@ EXCEPT !.pc = "new", !.method = method,
                                                    !.opt = o],
                                   ![Slot(p)].q = newBuilder(TableName, o)]
  /\ UNCHANGED Others

StepTrx(p) ==
  /\ procs[p].pc = "new"
  /\ procs' = [procs EXCEPT ![p].pc = "trx",
                            ![Slot(p)].q = attachTrx(procs[Slot(p)].q, procs[p].opt)]
  /\ UNCHANGED Others

StepOrder(p) ==
  /\ procs[p].pc = "trx"
  /\ procs' = [procs EXCEPT ![p].pc = "ordered",
                            ![Slot(p)].q = applyOrder(procs[Slot(p)].q, TableName, procs[p].opt)]
  /\ UNCHANGED Others

StepShape(p) ==
  /\ procs[p].pc = "ordered"
  /\ procs' = [procs EXCEPT ![p].pc = "done",
                            ![p].ret = shape(procs[p].method, procs[Slot(p)].q, TableName,
                                             IdColumn, procs[p].opt)]
  /\ UNCHANGED Others

Finish(p) ==
  /\ procs[p].pc = "done"
  /\ procs' = [procs EXCEPT ![p] = NoCall]
  /\ UNCHANGED Others

InitConc ==
  /\ Constructed([dbmain |-> "dbmain", dbreadonly |-> "dbreadonly"])
  /\ table = SeqTable(3)
  /\ trx_state = [t \in Trxs |-> "open"]
  /\ store = NoStore
  /\ Idle

NextConc ==
  \E p \in Callers : Begin(p) \/ StepTrx(p) \/ StepOrder(p) \/ StepShape(p) \/ Finish(p)

SpecConc == InitConc /\ [][NextConc]_vars

-----------------------------------------------------------------------------
(* The traversal of the doc-comment example while other operations insert   *)
(* and delete rows.  Building the query and executing it are two steps:     *)
(* qbCPaginate returns the query, await sends it as one statement, and the  *)
(* table can change before the statement runs.                              *)

MaxChurn == 3

MaxId == 5

ChurnIds == 0..MaxId

ChurnTables == {SeqTable(n) : n \in 0..3}

ChurnOptions == Opt(Opt({Empty}, "order", {"asc", "desc"}), "page_size", 1..2)

(* Row identities of inserted rows lie above those of every initial table *)
NewRid == 100 + churn

Compose(o) ==
  /\ opt' = o
  /\ query' = qbCPaginate(TableName, IdColumn, o)
  /\ pc' = "composed"
  /\ call' = "qbCPaginate"
  /\ trx_state' = TrxStateAfterQb(o, trx_state)
  /\ UNCHANGED <<dbmain, dbreadonly, table, result, pages, ctor, handle, args, procs, sent,
                 present, churn, store, reset, codec>>

ComposeFirst ==
  /\ pc = "idle"
  /\ \E o \in ChurnOptions :
       /\ Compose(o)
       /\ opt0' = o

ComposeNext ==
  /\ pc = "fetched"
  /\ HasNext(opt, result)
  /\ Len(pages) < MaxFetch
  /\ LET peek == result.rows[Len(result.rows)]
     IN Compose(("start_id" :> Str(NumToStr(peek.id))) @@ opt)
  /\ UNCHANGED opt0

Run ==
  /\ pc = "composed"
  /\ result' = Execute(query, table)
  /\ pages' = Append(pages, LogicalPage(opt, result'))
  /\ sent' = sent + 1
  /\ present' = StillPresent
  /\ pc' = "fetched"
  /\ UNCHANGED <<dbmain, dbreadonly, table, call, opt, opt0, query, ctor, trx_state, handle,
                 args, procs, churn, store, reset, codec>>

OtherOperation(rows) ==
  /\ pc = "composed"
  /\ churn < MaxChurn
  /\ table' = rows
  /\ churn' = churn + 1
  /\ UNCHANGED <<dbmain, dbreadonly, pc, call, opt, opt0, query, result, pages, ctor,
                 trx_state, handle, args, procs, sent, present, store, reset, codec>>

Insert ==
  \E id \in ChurnIds \ {table[i].id : i \in DOMAIN table} :
    OtherOperation(Append(table, [rid |-> NewRid, id |-> id, name |-> 1 + (id % 2)]))

Delete ==
  \E i \in DOMAIN table :
    OtherOperation(SubSeq(table, 1, i - 1) \o SubSeq(table, i + 1, Len(table)))

InitChurn ==
  /\ Constructed([dbmain |-> "dbmain", dbreadonly |-> "dbreadonly"])
  /\ table \in ChurnTables
  /\ trx_state = [t \in Trxs |-> "open"]
  /\ store = NoStore
  /\ Idle

NextChurn == ComposeFirst \/ ComposeNext \/ Run \/ Insert \/ Delete

SpecChurn == InitChurn /\ [][NextChurn]_vars

-----------------------------------------------------------------------------
(* A call of knexResetTablesAdvance: the choice of the tables, then one     *)
(* delete for every chosen table, each awaited before the next.             *)

MaxStore == 2

ObjectOf(keys, f) == [i \in DOMAIN keys |-> [key |-> keys[i], value |-> f[keys[i]]]]

DefaultOptions ==
  UNION {{ObjectOf(keys, f) : f \in [SeqSet(keys) -> BOOLEAN]} :
           keys \in {ResetNames, SubSeq(ResetNames, 1, 2)}}

(* option.tables, its keys written in another order than the defaults *)
PartialTables ==
  LET InS(S) == LET In(k) == k \in S
                IN SelectSeq(<<"user_role", "users", "roles">>, In)
  IN UNION {{ObjectOf(InS(S), f) : f \in [S -> BOOLEAN]} : S \in SUBSET SeqSet(ResetNames)}

AdvanceOptions ==
  {Empty} \cup {[tables |-> t] : t \in PartialTables}
          \cup {[strategy |-> st, tables |-> t] : st \in {"only", "except"}, t \in PartialTables}

NotReset == <<dbmain, dbreadonly, table, pc, call, opt, opt0, query, result, pages,
              ctor, trx_state, handle, args, procs, sent, present, churn, codec>>

CallKnexResetTablesAdvance ==
  /\ reset.pc = "idle"
  /\ \E tables \in DefaultOptions, option \in AdvanceOptions :
       LET c == chosen(tables, option)
       IN reset' = [pc |-> "deleting", tables |-> tables, option |-> option,
                    chosen |-> c, next |-> 1, result |-> [t \in SeqSet(c) |-> 0],
                    before |-> store]
  /\ UNCHANGED store
  /\ UNCHANGED NotReset

DeleteRows ==
  /\ reset.pc = "deleting"
  /\ reset.next <= Len(reset.chosen)
  /\ LET t == reset.chosen[reset.next]
     IN /\ store' = [store EXCEPT ![t] = 0]
        /\ reset' = [reset EXCEPT !.next = @ + 1, !.result = [@ EXCEPT ![t] = store[t]]]
  /\ UNCHANGED NotReset

ReturnResetResult ==
  /\ reset.pc = "deleting"
  /\ reset.next > Len(reset.chosen)
  /\ reset' = [reset EXCEPT !.pc = "done"]
  /\ UNCHANGED store
  /\ UNCHANGED NotReset

InitReset ==
  /\ Constructed([dbmain |-> "dbmain", dbreadonly |-> "dbreadonly"])
  /\ table = SeqTable(3)
  /\ trx_state = [t \in Trxs |-> "open"]
  /\ store \in [SeqSet(ResetNames) -> 0..MaxStore]
  /\ Idle

NextReset == CallKnexResetTablesAdvance \/ DeleteRows \/ ReturnResetResult

SpecReset == InitReset /\ [][NextReset]_vars

-----------------------------------------------------------------------------
(* A call of toBinaryUUID or fromBinaryUUID, followed by the call of the    *)
(* other on what it returned.                                               *)

MaxSeed == 47

UuidLength == 16

ByteValues == 256

UuidBuffers ==
  {[i \in 1..UuidLength |-> (m * i + c) % ByteValues] : m \in {0, 1, 17}, c \in 0..MaxSeed}

(* The 8-4-4-4-12 text of 16 bytes, written with the given digits *)
UuidText(bytes, digits) ==
  LET Digit(k) == LET byte == bytes[(k + 1) \div 2]
                  IN digits[(IF k % 2 = 1 THEN byte \div 16 ELSE byte % 16) + 1]
      Group(from, to) == [k \in 1..(to - from + 1) |-> Digit(from + k - 1)]
  IN Group(1, 8) \o <<"-">> \o Group(9, 12) \o <<"-">> \o Group(13, 16) \o <<"-">>
       \o Group(17, 20) \o <<"-">> \o Group(21, 32)

UuidStrings ==
  {UuidText(b, d) : b \in UuidBuffers, d \in {HexDigits, UpperHexDigits}}

NotCodec == <<dbmain, dbreadonly, table, pc, call, opt, opt0, query, result, pages,
              ctor, trx_state, handle, args, procs, sent, present, churn, store, reset>>

CallToBinaryUUID ==
  /\ codec.op = "none"
  /\ \E uuid \in UuidStrings :
       codec' = [op |-> "toBinaryUUID", input |-> uuid, output |-> toBinaryUUID(uuid),
                 back |-> fromBinaryUUID(toBinaryUUID(uuid))]
  /\ UNCHANGED NotCodec

CallFromBinaryUUID ==
  /\ codec.op = "none"
  /\ \E buf \in UuidBuffers :
       codec' = [op |-> "fromBinaryUUID", input |-> buf, output |-> fromBinaryUUID(buf),
                 back |-> toBinaryUUID(fromBinaryUUID(buf))]
  /\ UNCHANGED NotCodec

InitCodec ==
  /\ Constructed([dbmain |-> "dbmain", dbreadonly |-> "dbreadonly"])
  /\ table = SeqTable(3)
  /\ trx_state = [t \in Trxs |-> "open"]
  /\ store = NoStore
  /\ Idle

NextCodec == CallToBinaryUUID \/ CallFromBinaryUUID

SpecCodec == InitCodec /\ [][NextCodec]_vars

-----------------------------------------------------------------------------
(* Vocabulary of the properties, stated on the option as the caller wrote it *)

Fetched == pc = "fetched"

NoStart(o) == ~Has(o, "start_id") \/ o.start_id.kind = "null"

StartNum(o) == SqlNum(o.start_id.chars)

Asc(o) == ~Has(o, "order") \/ o.order = "asc"

Desc(o) == Has(o, "order") /\ o.order = "desc"

PeekOn(o) == ~Has(o, "disablePageSizePlusOne") \/ o.disablePageSizePlusOne = FALSE

PeekOff(o) == Has(o, "disablePageSizePlusOne") /\ o.disablePageSizePlusOne = TRUE

Sized(o) == Has(o, "page_size") /\ o.page_size > 0

NoOrderBy(o) == ~Has(o, "order_by")

TableIds == {table[i].id : i \in DOMAIN table}

MaxTableId == CHOOSE v \in TableIds : \A w \in TableIds : w <= v

UniqueIds == \A i, j \in DOMAIN table : table[i].id = table[j].id => i = j

InBoundary(id, o) ==
  IF NoStart(o)
  THEN IF Asc(o) THEN id >= 1 ELSE table # <<>> /\ id <= MaxTableId
  ELSE IF Asc(o) THEN id >= StartNum(o) ELSE id <= StartNum(o)

Matching(o) == {i \in DOMAIN table : InBoundary(table[i].id, o)}

ResultIds == [i \in DOMAIN result.rows |-> result.rows[i].id]

ResultRids == {result.rows[i].rid : i \in DOMAIN result.rows}

RECURSIVE Flatten(_)
Flatten(ps) == IF ps = <<>> THEN <<>> ELSE Head(ps) \o Flatten(Tail(ps))

InOrder(ids, o) ==
  \A i \in 1..(Len(ids) - 1) : IF Asc(o) THEN ids[i] <= ids[i + 1] ELSE ids[i] >= ids[i + 1]

StrictlyInOrder(ids, o) ==
  \A i \in 1..(Len(ids) - 1) : IF Asc(o) THEN ids[i] < ids[i + 1] ELSE ids[i] > ids[i + 1]

Finished == Fetched /\ ~result.error /\ ~(Sized(opt) /\ Len(result.rows) > opt.page_size)

-----------------------------------------------------------------------------
(* C1: on a table with unique ids >= 1, a traversal that starts with no     *)
(* start_id, has page_size n > 0 and the peek row on, and follows the peek  *)
(* row until a result has at most n rows, returns every row of the table    *)
(* in exactly one logical page, in the requested order: the concatenated    *)
(* pages are strictly ordered, hold exactly the ids of the table, every     *)
(* page but the last has n rows; 25 rows with n = 10 ascending give pages   *)
(* of 10, 10 and 5 rows.                                                    *)
C1_TraversalComplete ==
  (/\ Finished
   /\ NoStart(opt0) /\ Sized(opt0) /\ PeekOn(opt0) /\ NoOrderBy(opt0)
   /\ UniqueIds
   /\ \A id \in TableIds : id >= 1)
  => LET flat == Flatten(pages)
         ids == [i \in DOMAIN flat |-> flat[i].id]
     IN /\ StrictlyInOrder(ids, opt0)
        /\ {ids[i] : i \in DOMAIN ids} = TableIds
        /\ Len(ids) = Len(table)
        /\ \A k \in 1..(Len(pages) - 1) : Len(pages[k]) = opt0.page_size
        /\ Len(pages[Len(pages)]) <= opt0.page_size
        /\ (Len(table) = 25 /\ opt0.page_size = 10 /\ Asc(opt0)
              => [k \in DOMAIN pages |-> Len(pages[k])] = <<10, 10, 5>>)

C1_Witness ==
  /\ Finished
  /\ NoStart(opt0) /\ PeekOn(opt0) /\ NoOrderBy(opt0) /\ Asc(opt0)
  /\ Sized(opt0) /\ opt0.page_size = 10
  /\ Len(table) = 25
  /\ Len(pages) = 3
  /\ Len(Flatten(pages)) = 25

(* C2: with page_size n > 0 the limit is n + 1 when disablePageSizePlusOne  *)
(* is false or absent and n when it is true, so the result has              *)
(* min(m, n + 1) respectively min(m, n) rows, m being the number of rows    *)
(* inside the boundary.                                                     *)
C2_LimitApplied ==
  (Fetched /\ Sized(opt))
  => LET m == Cardinality(Matching(opt))
         n == opt.page_size
     IN /\ ~result.error
        /\ PeekOn(opt) => query.limit = <<n + 1>> /\ Len(result.rows) = Min(m, n + 1)
        /\ PeekOff(opt) => query.limit = <<n>> /\ Len(result.rows) = Min(m, n)

C2_Witness ==
  /\ Fetched /\ Sized(opt) /\ PeekOff(opt)
  /\ opt.page_size = 2
  /\ Cardinality(Matching(opt)) > 2
  /\ Len(result.rows) = 2

(* C3: with page_size n > 0 and the peek row on, the result has at most     *)
(* n + 1 rows and has more than n rows exactly when more than n rows lie    *)
(* inside the boundary.                                                     *)
C3_PeekDetectsNext ==
  (Fetched /\ Sized(opt) /\ PeekOn(opt))
  => /\ Len(result.rows) <= opt.page_size + 1
     /\ Len(result.rows) > opt.page_size <=> Cardinality(Matching(opt)) > opt.page_size

C3_Witness ==
  /\ Fetched /\ Sized(opt) /\ PeekOn(opt)
  /\ opt.page_size = 2
  /\ Len(result.rows) = 3
  /\ Cardinality(Matching(opt)) > 3

(* C4: the boundary is inclusive: when start_id = s is given and a row with *)
(* id = s exists, the comparison is >= (ascending) or <= (descending) and   *)
(* that row is the first row of the result.                                 *)
C4_InclusiveBoundary ==
  (/\ Fetched
   /\ ~NoStart(opt) /\ NoOrderBy(opt)
   /\ StartNum(opt) \in TableIds)
  => /\ query.where[1].op = (IF Asc(opt) THEN ">=" ELSE "<=")
     /\ result.rows # <<>>
     /\ result.rows[1].id = StartNum(opt)

C4_Witness ==
  /\ Fetched
  /\ Len(pages) = 2
  /\ NoOrderBy(opt) /\ Desc(opt)
  /\ ~NoStart(opt) /\ StartNum(opt) \in TableIds
  /\ result.rows[1].id = StartNum(opt)
  /\ result.rows[1] \notin {pages[1][i] : i \in DOMAIN pages[1]}

(* C5: ascending (or no order) with no start_id filters on id >= "1" and    *)
(* returns the rows with id >= 1 in ascending id order, up to the limit.    *)
C5_AscendingDefault ==
  (Fetched /\ Asc(opt) /\ NoStart(opt) /\ NoOrderBy(opt))
  => LET low == {i \in DOMAIN table : table[i].id >= 1}
     IN /\ Len(query.where) = 1
        /\ query.where[1].op = ">="
        /\ query.where[1].value = Str(<<1>>)
        /\ ~result.error
        /\ InOrder(ResultIds, opt)
        /\ ResultRids \subseteq {table[i].rid : i \in low}
        /\ Len(result.rows) = Cardinality(ResultRids)
        /\ Len(result.rows) =
             (IF query.limit = <<>> THEN Cardinality(low)
              ELSE Min(Cardinality(low), query.limit[1]))
        /\ \A i \in low : table[i].rid \notin ResultRids
             => \A k \in DOMAIN result.rows : result.rows[k].id <= table[i].id

C5_Witness ==
  /\ Fetched /\ Asc(opt) /\ NoStart(opt) /\ NoOrderBy(opt)
  /\ \E i \in DOMAIN table : table[i].id < 1
  /\ Len(table) = 2
  /\ table[1].id > table[2].id
  /\ Len(result.rows) = 1
  /\ query.limit = <<>>

(* C6: descending with no start_id on a non-empty table compares id <= the  *)
(* max sub-query: the first row is the row with the greatest id and the     *)
(* boundary excludes no row.                                                *)
C6_DescendingDefault ==
  (Fetched /\ Desc(opt) /\ NoStart(opt) /\ table # <<>>)
  => /\ Len(query.where) = 1
     /\ query.where[1].op = "<="
     /\ query.where[1].value.kind = "query"
     /\ ~result.error
     /\ Len(result.rows) =
          (IF query.limit = <<>> THEN Len(table) ELSE Min(Len(table), query.limit[1]))
     /\ NoOrderBy(opt) => result.rows[1].id = MaxTableId /\ InOrder(ResultIds, opt)

C6_Witness ==
  /\ Fetched /\ Desc(opt) /\ NoStart(opt) /\ NoOrderBy(opt)
  /\ Len(table) = 2
  /\ table[1].id < table[2].id
  /\ table[1].id < 1
  /\ ResultIds = <<table[2].id, table[1].id>>

(* C7: descending with no start_id on an empty table gives an empty result  *)
(* and no error: the max sub-query yields one row holding null, and the     *)
(* comparison against null selects no row.                                  *)
C7_EmptyTableDescending ==
  (Fetched /\ Desc(opt) /\ NoStart(opt) /\ table = <<>>)
  => /\ ~result.error
     /\ result.rows = <<>>
     /\ query.where[1].value.kind = "query"
     /\ LET sub == Execute(query.where[1].value.q, table)
        IN ~sub.error /\ Len(sub.rows) = 1 /\ sub.rows[1].null

C7_Witness ==
  /\ Fetched /\ Desc(opt) /\ NoStart(opt) /\ table = <<>>
  /\ ~result.error
  /\ result.rows = <<>>

(* C8: when page_size is 0, negative or absent no limit is applied and      *)
(* every row inside the boundary is returned, whatever                      *)
(* disablePageSizePlusOne is.                                               *)
C8_Unbounded ==
  (Fetched /\ ~Sized(opt))
  => /\ query.limit = <<>>
     /\ ~result.error
     /\ ResultRids = {table[i].rid : i \in Matching(opt)}
     /\ Len(result.rows) = Cardinality(Matching(opt))

C8_Witness ==
  /\ Fetched
  /\ Has(opt, "page_size") /\ opt.page_size < 0
  /\ PeekOff(opt)
  /\ Len(table) = 25
  /\ Len(result.rows) = 25

(* C9: on a table with the sequential ids 1..N, ascending with start_id = s *)
(* (1 <= s <= N), page_size k > 0 and disablePageSizePlusOne = true returns *)
(* the ids s, s + 1, ..., min(s + k - 1, N) in that order; s = 5, k = 3,    *)
(* N = 7 gives 5, 6, 7.                                                     *)
C9_SequentialPage ==
  (/\ Fetched
   /\ UniqueIds /\ table # <<>> /\ TableIds = 1..Len(table)
   /\ Asc(opt) /\ NoOrderBy(opt) /\ Sized(opt) /\ PeekOff(opt)
   /\ ~NoStart(opt) /\ StartNum(opt) \in TableIds)
  => LET s == StartNum(opt)
         last == Min(s + opt.page_size - 1, Len(table))
     IN ResultIds = [i \in 1..(last - s + 1) |-> s + i - 1]

C9_Witness ==
  /\ Fetched
  /\ Len(table) = 7 /\ TableIds = 1..7
  /\ Asc(opt) /\ NoOrderBy(opt) /\ PeekOff(opt)
  /\ Sized(opt) /\ opt.page_size = 3
  /\ ~NoStart(opt) /\ StartNum(opt) = 5
  /\ ResultIds = <<5, 6, 7>>

(* C10: whenever option.trx is set, the query built by qb, qbMax or         *)
(* qbCPaginate is built on dbmain, whatever option.readonly is.             *)
C10_TrxOnMain ==
  (pc = "built" /\ Has(opt, "trx")) => query.handle = "dbmain"

(* C11: db(option) returns dbreadonly when option.readonly is true and      *)
(* dbmain when it is false or absent or when no option is given, and the    *)
(* call changes nothing: not the handles, the table, the transactions nor   *)
(* any query or result.                                                     *)
C11_DbRouting ==
  [][pc' = "resolved"
       => /\ handle' = (IF Has(opt', "readonly") /\ opt'.readonly = TRUE
                        THEN dbreadonly ELSE dbmain)
          /\ UNCHANGED <<dbmain, dbreadonly, ctor, table, trx_state, query, result, pages>>]_vars

C11_Witness ==
  /\ pc = "resolved"
  /\ Has(ctor, "dbreadonly")
  /\ Has(opt, "readonly") /\ opt.readonly = TRUE
  /\ ~Has(opt, "trx")
  /\ handle = "dbreadonly"

(* C12: every query on which forUpdate is applied is built on dbmain, never *)
(* on dbreadonly, also when the option has for_update, a transaction and    *)
(* readonly = true.                                                         *)
C12_LockOnMain ==
  (pc = "built" /\ query.forUpdate) => query.handle = "dbmain"

(* C13: qb attaches the query to option.trx exactly when option.trx is set  *)
(* and applies forUpdate exactly when option.trx and option.for_update are  *)
(* both set, so a query with forUpdate is always attached to a transaction. *)
C13_TrxAndLock ==
  pc = "built"
  => /\ query.transacting = (IF Has(opt, "trx") THEN <<opt.trx>> ELSE <<>>)
     /\ query.forUpdate
          <=> (Has(opt, "trx") /\ Has(opt, "for_update") /\ opt.for_update = TRUE)
     /\ query.forUpdate => query.transacting # <<>>

C13_Witness ==
  /\ pc = "built"
  /\ call = "qb"
  /\ ~Has(opt, "trx")
  /\ Has(opt, "for_update") /\ opt.for_update = TRUE
  /\ ~query.forUpdate
  /\ query.transacting = <<>>

(* C14: a call of qb or qbCPaginate with for_update = true and no           *)
(* transaction is reported to the caller as an error: it does not return a  *)
(* query.                                                                   *)
C14_LockWithoutTrxRejected ==
  (/\ call \in {"qb", "qbCPaginate"}
   /\ Has(opt, "for_update") /\ opt.for_update = TRUE
   /\ ~Has(opt, "trx"))
  => pc # "built"

(* C15: for every option the query returned by qbCPaginate has the id       *)
(* column in the requested direction as its only sort key, and the rows     *)
(* come back in id order.                                                   *)
C15_OnlyIdSortKey ==
  Fetched
  => /\ query.orderBy = <<[column |-> prependTableName(TableName, IdColumn),
                           direction |-> IF Desc(opt) THEN "desc" ELSE "asc"]>>
     /\ InOrder(ResultIds, opt)

(* C16: qb, qbMax and qbCPaginate never begin, commit or roll back a        *)
(* transaction: a call leaves the state of every transaction as it was and  *)
(* only attaches option.trx to the query it returns.                        *)
C16_TransactionsUntouched ==
  [][pc' = "built"
       => /\ trx_state' = trx_state
          /\ Has(opt', "trx") => query'.transacting = <<opt'.trx>>]_vars

C16_Witness ==
  /\ pc = "built"
  /\ Has(opt, "trx")
  /\ query.transacting = <<opt.trx>>
  /\ trx_state[opt.trx] = "open"
  /\ \E t \in Trxs : trx_state[t] = "rolled back"

(* C18: every preset constructor returns an option whose trx is the         *)
(* transaction passed in (none when none is passed);                        *)
(* createSelectForUpdateOption(trx) returns readonly = false,               *)
(* for_update = true and that trx.                                          *)
C18_PresetsKeepTrx ==
  pc = "preset"
  => /\ Has(opt, "trx") <=> Has(args, "trx")
     /\ Has(args, "trx") => opt.trx = args.trx
     /\ call = "createSelectForUpdateOption"
          => opt = [readonly |-> FALSE, for_update |-> TRUE, trx |-> args.trx]

C18_Witness ==
  /\ pc = "preset"
  /\ call = "createSelectOption"
  /\ Has(args, "trx") /\ args.trx = "trx2"
  /\ opt = [readonly |-> TRUE, trx |-> "trx2"]

(* C19: when the Repository is constructed without dbreadonly, dbreadonly   *)
(* is dbmain, so db and every query use dbmain whatever option.readonly is. *)
C19_ReadonlyDefaultsToMain ==
  ~Has(ctor, "dbreadonly")
  => /\ dbreadonly = dbmain
     /\ dbmain = ctor.dbmain
     /\ pc = "built" => query.handle = ctor.dbmain
     /\ pc = "resolved" => handle = ctor.dbmain

C19_Witness ==
  /\ ~Has(ctor, "dbreadonly")
  /\ pc = "built"
  /\ Has(opt, "readonly") /\ opt.readonly = TRUE
  /\ query.handle = "dbmain"

(* C17: concurrent calls of db, qb, qbMax and qbCPaginate on one            *)
(* Repository, whatever the interleaving of their statements, each return   *)
(* what the same call returns when run alone, and dbmain and dbreadonly     *)
(* keep the values the constructor set.                                     *)
Alone(method, o) ==
  CASE method = "db" -> [NoBuilder EXCEPT !.handle = db(o)]
    [] method = "qb" -> qb(TableName, o)
    [] method = "qbMax" -> qbMax(TableName, IdColumn, o)
    [] OTHER -> qbCPaginate(TableName, IdColumn, o)

C17_ConcurrentCallsIndependent ==
  /\ dbmain = Constructor(ctor).dbmain
  /\ dbreadonly = Constructor(ctor).dbreadonly
  /\ \A p \in Callers :
       procs[p].pc = "done" => procs[p].ret = Alone(procs[p].method, procs[p].opt)

C17_Witness ==
  /\ procs[1].pc = "done"
  /\ procs[1].method = "qbCPaginate"
  /\ procs[2].pc = "ordered"
  /\ procs[2].method = "qbMax"
  /\ procs[1].opt # procs[2].opt
  /\ procs[1].ret = qbCPaginate(TableName, IdColumn, procs[1].opt)

(* C20: when the id column has duplicate values the peek-row protocol       *)
(* returns a row in two logical pages: whenever the last row of a logical   *)
(* page has the id of the peek row that seeds the next call, the next       *)
(* logical page starts with a row the page before already held.             *)
C20_DuplicateAtBoundaryRepeats ==
  (/\ Fetched
   /\ Len(pages) >= 2
   /\ Sized(opt0) /\ PeekOn(opt0) /\ NoOrderBy(opt0)
   /\ LET prev == pages[Len(pages) - 1]
      IN prev # <<>> /\ prev[Len(prev)].id = StartNum(opt))
  => LET prev == pages[Len(pages) - 1]
         cur == pages[Len(pages)]
     IN /\ cur # <<>>
        /\ cur[1] \in {prev[i] : i \in DOMAIN prev}

C20_Witness ==
  /\ Fetched
  /\ Len(pages) = 2
  /\ Sized(opt0) /\ PeekOn(opt0) /\ NoOrderBy(opt0) /\ NoStart(opt0)
  /\ ~UniqueIds
  /\ pages[1] # <<>> /\ pages[2] # <<>>
  /\ pages[2][1] = pages[1][Len(pages[1])]
  /\ \E i \in DOMAIN table : \A k \in DOMAIN pages : table[i] \notin {pages[k][j] : j \in DOMAIN pages[k]}

(* C21: knexResetTablesAdvance overlays option.tables on the default table  *)
(* map and deletes the rows of exactly the chosen tables: with strategy     *)
(* only or no strategy the tables whose merged flag is true, with except    *)
(* those whose merged flag is false; no other table loses a row, and the    *)
(* result counts the rows deleted from every chosen table.  With all        *)
(* defaults false: no option deletes nothing, only with {t: true} deletes   *)
(* only t, except with {t: true} deletes every table but t, except with {}  *)
(* deletes every table.                                                     *)
MergedKeys == KeySet(reset.tables) \cup KeySet(OptionTables(reset.option))

MergedFlag(k) ==
  IF k \in KeySet(OptionTables(reset.option))
  THEN Get(OptionTables(reset.option), k)
  ELSE Get(reset.tables, k)

Strategy == IF Has(reset.option, "strategy") THEN reset.option.strategy ELSE "only"

ExpectedTables == {k \in MergedKeys : MergedFlag(k) = (Strategy = "only")}

AllDefaultsFalse == \A i \in DOMAIN reset.tables : reset.tables[i].value = FALSE

C21_ResetChoosesTables ==
  /\ reset.pc # "idle"
       => /\ SeqSet(reset.chosen) = ExpectedTables
          /\ \A k \in DOMAIN store : k \notin ExpectedTables => store[k] = reset.before[k]
  /\ reset.pc = "done"
       => /\ \A k \in DOMAIN store :
               store[k] = (IF k \in ExpectedTables THEN 0 ELSE reset.before[k])
          /\ DOMAIN reset.result = ExpectedTables
          /\ \A k \in ExpectedTables : reset.result[k] = reset.before[k]
          /\ AllDefaultsFalse
               => /\ reset.option = Empty => store = reset.before
                  /\ \A t \in SeqSet(ResetNames) :
                       /\ reset.option = [strategy |-> "only",
                                          tables |-> <<[key |-> t, value |-> TRUE]>>]
                            => ExpectedTables = {t}
                       /\ reset.option = [strategy |-> "except",
                                          tables |-> <<[key |-> t, value |-> TRUE]>>]
                            => ExpectedTables = KeySet(reset.tables) \ {t}
                  /\ reset.option = [strategy |-> "except", tables |-> <<>>]
                       => ExpectedTables = KeySet(reset.tables)

C21_Witness ==
  /\ reset.pc = "done"
  /\ AllDefaultsFalse
  /\ Keys(reset.tables) = ResetNames
  /\ reset.option = [strategy |-> "except", tables |-> <<[key |-> "users", value |-> TRUE]>>]
  /\ reset.before = [t \in SeqSet(ResetNames) |-> MaxStore]
  /\ store = [t \in SeqSet(ResetNames) |-> IF t = "users" THEN MaxStore ELSE 0]
  /\ reset.result = [t \in {"roles", "user_role"} |-> MaxStore]

(* C22: in descending qbCPaginate with no start_id the maximum id is a      *)
(* sub-query embedded in the page query: building the query sends no        *)
(* statement, and one statement computes the boundary and the rows, so the  *)
(* result is taken from the table as it is when that statement runs, the    *)
(* inserts and deletes made after the query was built included.             *)
C22_MaxInSameStatement ==
  (Desc(opt) /\ NoStart(opt))
  => /\ pc = "composed"
          => /\ query.where[1].value.kind = "query"
             /\ query.where[1].value.q = qbMax(TableName, IdColumn, opt)
             /\ sent = 0
             /\ result = [error |-> FALSE, rows |-> <<>>]
     /\ pc = "fetched"
          => /\ sent = 1
             /\ ~result.error
             /\ Len(result.rows) =
                  (IF query.limit = <<>> THEN Len(table) ELSE Min(Len(table), query.limit[1]))
             /\ table # <<>> => result.rows[1].id = MaxTableId

C22_Witness ==
  /\ pc = "fetched"
  /\ Desc(opt) /\ NoStart(opt)
  /\ churn >= 2
  /\ sent = 1
  /\ \E i \in DOMAIN table : table[i].rid = 100 /\ table[i].id = MaxTableId
  /\ result.rows[1].rid = 100
  /\ Len(table) = 3

(* C26: while other operations insert rows with new unique ids and delete   *)
(* rows between the fetches, a traversal that follows the peek row, in      *)
(* either order, returns no row in two logical pages, and when it ends it   *)
(* has returned every row with id >= 1 that was in the table at every       *)
(* fetch.                                                                   *)
C26_ChurnTraversal ==
  (/\ Fetched
   /\ NoStart(opt0) /\ Sized(opt0) /\ PeekOn(opt0) /\ NoOrderBy(opt0))
  => LET flat == Flatten(pages)
     IN /\ UniqueIds
        /\ Cardinality(Rids(flat)) = Len(flat)
        /\ Finished
             => \A i \in DOMAIN table :
                  (table[i].rid \in present /\ table[i].id >= 1)
                    => table[i].rid \in Rids(flat)

C26_Witness ==
  /\ Finished
  /\ NoStart(opt0) /\ Sized(opt0) /\ PeekOn(opt0) /\ NoOrderBy(opt0)
  /\ Len(pages) >= 2
  /\ churn >= 2
  /\ present # {}
  /\ Rids(Flatten(pages)) \ Rids(table) # {}
  /\ Rids(table) \ Rids(Flatten(pages)) # {}
  /\ \E i \in DOMAIN table : table[i].rid \in present /\ table[i].id < 1

(* C23: qbCPaginate uses option.start_id unchanged as the boundary whenever *)
(* it is neither null nor undefined, the empty string and "0" included, and *)
(* then builds no max sub-query, also in descending order; only when        *)
(* start_id is null or absent is the boundary "1" (ascending) or the max    *)
(* sub-query (descending).                                                  *)
C23_StartIdUnchanged ==
  Fetched
  => LET given == Has(opt, "start_id") /\ opt.start_id # Null
         bound == query.where[1].value
     IN /\ Len(query.where) = 1
        /\ given => bound = opt.start_id /\ bound.kind = "str"
        /\ (~given /\ Asc(opt)) => bound = Str(<<1>>)
        /\ (~given /\ Desc(opt)) => bound.kind = "query"

C23_Witness ==
  /\ Fetched
  /\ Desc(opt)
  /\ Has(opt, "start_id") /\ opt.start_id = Str(<<>>)
  /\ query.where[1].value = Str(<<>>)
  /\ table # <<>>
  /\ \A i \in DOMAIN table : table[i].id > 0
  /\ result.rows = <<>>

(* C24: qbMax(table, column, option) returns a query that selects the       *)
(* maximum of column over table under the alias max, reduced to a single    *)
(* row, on the handle and with the transaction and the row lock that qb     *)
(* gives for that option; executed, it yields one row holding the greatest  *)
(* id of the table.                                                         *)
C24_QbMaxShape ==
  (pc = "built" /\ call = "qbMax")
  => /\ query.max =
          <<[column |-> IF Has(opt, "disablePrependTableName")
                           /\ opt.disablePrependTableName = TRUE
                        THEN "id" ELSE "users.id",
             as |-> "max"]>>
     /\ query.first
     /\ query.table = "users"
     /\ query.where = <<>> /\ query.limit = <<>>
     /\ query.handle = qb(TableName, opt).handle
     /\ query.transacting = qb(TableName, opt).transacting
     /\ query.forUpdate = qb(TableName, opt).forUpdate
     /\ Execute(query, table) = [error |-> FALSE, rows |-> <<[null |-> FALSE, n |-> MaxTableId]>>]

C24_Witness ==
  /\ pc = "built" /\ call = "qbMax"
  /\ Has(ctor, "dbreadonly")
  /\ opt = [readonly |-> TRUE, trx |-> "trx1", for_update |-> TRUE]
  /\ query.handle = "dbreadonly"
  /\ query.transacting = <<"trx1">>
  /\ query.forUpdate
  /\ query.max = <<[column |-> "users.id", as |-> "max"]>>

(* C25: qb applies an ordering exactly when option.order and                *)
(* option.order_by are both set: then the only sort key is order_by in the  *)
(* direction order, the column written table.order_by unless                *)
(* disablePrependTableName is true; when either is absent the query has no  *)
(* ordering.                                                                *)
C25_QbOrdering ==
  (pc = "built" /\ call = "qb")
  => IF Has(opt, "order") /\ Has(opt, "order_by")
     THEN LET bare == Has(opt, "disablePrependTableName") /\ opt.disablePrependTableName = TRUE
              qualified == IF opt.order_by = "id" THEN "users.id" ELSE "users.name"
          IN query.orderBy = <<[column |-> IF bare THEN opt.order_by ELSE qualified,
                                direction |-> opt.order]>>
     ELSE query.orderBy = <<>>

C25_Witness ==
  /\ pc = "built" /\ call = "qb"
  /\ Has(opt, "order") /\ opt.order = "desc"
  /\ Has(opt, "order_by") /\ opt.order_by = "name"
  /\ Has(opt, "disablePrependTableName") /\ opt.disablePrependTableName = FALSE
  /\ query.orderBy = <<[column |-> "users.name", direction |-> "desc"]>>

(* C27: on a table of N rows with unique ids >= 1 that does not change, a   *)
(* traversal with page_size n > 0 that follows the peek row and stops at    *)
(* the first result with at most n rows takes exactly max(1, ceil(N / n))   *)
(* fetches, in either order, and never more on the way.                     *)
FetchesNeeded(N, n) == IF N = 0 THEN 1 ELSE (N + n - 1) \div n

C27_FetchCount ==
  (/\ Fetched
   /\ NoStart(opt0) /\ Sized(opt0) /\ PeekOn(opt0) /\ NoOrderBy(opt0)
   /\ UniqueIds
   /\ \A id \in TableIds : id >= 1)
  => /\ sent = Len(pages)
     /\ sent <= FetchesNeeded(Len(table), opt0.page_size)
     /\ Finished <=> sent = FetchesNeeded(Len(table), opt0.page_size)

C27_Witness ==
  /\ Finished
  /\ NoStart(opt0) /\ Sized(opt0) /\ PeekOn(opt0) /\ NoOrderBy(opt0) /\ Desc(opt0)
  /\ Len(table) = 7
  /\ opt0.page_size = 2
  /\ sent = 4

(* C28: every option the select presets createSelectOption(trx, after) and  *)
(* createSelectForUpdateOption(trx) return when a transaction is supplied   *)
(* has readonly not true, so the query qb builds from it is attached to the *)
(* transaction and built on dbmain.                                         *)
C28_SelectPresetsOnMain ==
  (/\ pc = "preset"
   /\ call \in {"createSelectOption", "createSelectForUpdateOption"}
   /\ Has(args, "trx"))
  => /\ ~(Has(opt, "readonly") /\ opt.readonly = TRUE)
     /\ qb(TableName, opt).transacting = <<args.trx>>
     /\ qb(TableName, opt).handle = "dbmain"

(* C29: every option the write presets createInsertOption,                  *)
(* createUpdateOption and createDeleteOption return, with or without a      *)
(* transaction, in the version of options/QueryOption.ts and in that of     *)
(* index.ts, makes db and qb use dbmain.                                    *)
C29_WritePresetsOnMain ==
  (/\ pc = "preset"
   /\ call \in {"createInsertOption", "createUpdateOption", "createDeleteOption"})
  => /\ ~(Has(opt, "readonly") /\ opt.readonly = TRUE)
     /\ db(opt) = "dbmain"
     /\ qb(TableName, opt).handle = "dbmain"
     /\ qbCPaginate(TableName, IdColumn, opt).handle = "dbmain"

C29_Witness ==
  /\ pc = "preset"
  /\ call = "createDeleteOption"
  /\ Has(ctor, "dbreadonly") /\ dbreadonly # dbmain
  /\ opt = [trx |-> "trx2"]
  /\ args = [trx |-> "trx2"]
  /\ db(opt) = "dbmain"

(* C30: toBinaryUUID and fromBinaryUUID are inverse: for every canonical    *)
(* 36-character lowercase hexadecimal UUID string u,                        *)
(* fromBinaryUUID(toBinaryUUID(u)) = u, and for every 16-byte buffer b,     *)
(* toBinaryUUID(fromBinaryUUID(b)) = b; toBinaryUUID places the bytes of u  *)
(* in the order 6-7, 4-5, 0-3, 8-15.                                        *)
DashPositions == {9, 14, 19, 24}

IsCanonicalLowercase(u) ==
  /\ Len(u) = 36
  /\ \A k \in 1..36 :
       IF k \in DashPositions THEN u[k] = "-" ELSE \E v \in 1..16 : u[k] = HexDigits[v]

(* The byte at offset j (0..15) of the text u, read off its two digits *)
TextByte(u, j) ==
  LET at == 2 * j + 1 + Cardinality({d \in {4, 6, 8, 10} : j >= d})
      Value(c) == (CHOOSE v \in 1..16 : HexDigits[v] = c) - 1
  IN 16 * Value(u[at]) + Value(u[at + 1])

ByteOrder == <<6, 7, 4, 5, 0, 1, 2, 3, 8, 9, 10, 11, 12, 13, 14, 15>>

C30_UuidCodecInverse ==
  /\ (codec.op = "toBinaryUUID" /\ IsCanonicalLowercase(codec.input))
       => /\ codec.back = codec.input
          /\ Len(codec.output) = 16
          /\ \A k \in 1..16 : codec.output[k] = TextByte(codec.input, ByteOrder[k])
  /\ (codec.op = "fromBinaryUUID" /\ Len(codec.input) = 16)
       => /\ codec.back = codec.input
          /\ IsCanonicalLowercase(codec.output)

C30_Witness ==
  /\ codec.op = "toBinaryUUID"
  /\ IsCanonicalLowercase(codec.input)
  /\ codec.input = <<"1", "1", "2", "2", "3", "3", "4", "4", "-", "5", "5", "6", "6", "-",
                     "7", "7", "8", "8", "-", "9", "9", "a", "a", "-",
                     "b", "b", "c", "c", "d", "d", "e", "e", "f", "f", "1", "0">>
  /\ codec.output = <<119, 136, 85, 102, 17, 34, 51, 68, 153, 170, 187, 204, 221, 238, 255, 16>>
  /\ codec.back = codec.input

====
